---- MODULE Spec2Model ----
(***************************************************************************)
(* Table upcast conversion of ckeditor5-table (converters/upcasttable.ts). *)
(*                                                                         *)
(* View nodes are records [name, colspan, children].  A node that is not   *)
(* an element (a text node) has the name "$text".  A view node is          *)
(* identified by its path, the sequence of child indices leading to it.    *)
(***************************************************************************)
EXTENDS Integers, Sequences, FiniteSets, TLC

\* Largest number of view nodes below the root of the view tree (the
\* <table>, or the <figure> around it).
MaxNodes == 6

\* The largest number of model children the conversion of a cell leaves.
MaxCellChildren == 4

\* The colspan attribute is absent, or a string holding a number.
NoAttr == ""
ColspanAttrs == {NoAttr, "2", "-1"}

VARIABLES
    viewFigure, \* the <figure> around the table, if any: its classes and children
    viewTable,  \* the children of the <table> view element being converted
    pc,         \* where the conversion stands
    ret,        \* where the table handler returns to (a stack)
    next,       \* the index the running loop of the table handler is at
    figNext,    \* the index the figure handler's convertChildren is at
    scan,       \* the value scanTable returned
    buckets,    \* scanTable's local headRows, bodyRows and footRows at its return
    consumed,   \* the consumed aspects of the view nodes
    model,      \* the model tables inserted so far, each with its children
    table,      \* the table handler's local: the model table it created (0: none)
    results,    \* the model range reported for the figure and for the table
    captions,   \* is a converter of captions registered for this pass?
    dispatched, \* the view nodes dispatched so far, in order
    cell,       \* a table cell under conversion: its view, its range, its children
    first       \* what an earlier pass over the same view gave, if there was one

viewVars == <<viewFigure, viewTable>>
passVars == <<ret, next, figNext, consumed, model, table, results, captions, dispatched>>
vars == <<viewFigure, viewTable, pc, ret, next, figNext, scan, buckets, consumed, model,
          table, results, captions, dispatched, cell, first>>

----------------------------------------------------------------------------
\* View trees

Node(n, c, ch) == [name |-> n, colspan |-> c, children |-> ch]

TextNode == Node("$text", NoAttr, <<>>)

\* Children of a <tr>: <th> with any colspan, <td>, or a stray text node.
\* (The converters read the colspan attribute of <th> only.)
RowChildren ==
    {Node("th", c, <<>>) : c \in ColspanAttrs} \cup {Node("td", NoAttr, <<>>), TextNode}

\* Children of a section: <tr> elements and stray text nodes.
SectionChildren == {Node("tr", NoAttr, << >>), TextNode}

\* Children of a <table>: the sections, and children that hold no rows
\* (a <caption>, a stray text node).
TableChildren ==
    {Node(nm, NoAttr, << >>) : nm \in {"thead", "tbody", "tfoot", "caption"}} \cup {TextNode}

\* Is this child of the table a section that can hold <tr>s?
IsSection(tableChild) ==
    tableChild.name = "tbody" \/ tableChild.name = "thead" \/ tableChild.name = "tfoot"

RECURSIVE CountNodes(_)
\* The number of view nodes in a list of siblings, descendants included.
CountNodes(nodes) ==
    IF nodes = << >> THEN 0
    ELSE 1 + CountNodes(Head(nodes).children) + CountNodes(Tail(nodes))

\* The view tree is any tree within the bounds: it grows by one node at its
\* end, in document order, until the conversion starts.
AppendTableChild(vt, node) == Append(vt, node)

AppendSectionChild(vt, node) ==
    [vt EXCEPT ![Len(vt)].children = Append(@, node)]

AppendRowChild(vt, node) ==
    [vt EXCEPT ![Len(vt)].children[Len(vt[Len(vt)].children)].children = Append(@, node)]

LastIsSection(vt) == vt # << >> /\ IsSection(vt[Len(vt)])

LastIsRow(vt) ==
    /\ LastIsSection(vt)
    /\ vt[Len(vt)].children # << >>
    /\ vt[Len(vt)].children[Len(vt[Len(vt)].children)].name = "tr"

GrowTable(vt) ==
    {AppendTableChild(vt, n) : n \in TableChildren}
        \cup (IF LastIsSection(vt) THEN {AppendSectionChild(vt, n) : n \in SectionChildren} ELSE {})
        \cup (IF LastIsRow(vt) THEN {AppendRowChild(vt, n) : n \in RowChildren} ELSE {})

----------------------------------------------------------------------------
\* JavaScript values

\* A value that is undefined or a number: << >> is undefined, <<n>> is n.
Undefined == << >>
Num(n) == <<n>>
\* !v
Not(v) == v = Undefined \/ v[1] = 0
\* v || d, for a number d
OrElse(v, d) == IF Not(v) THEN d ELSE v[1]

\* parseInt on the decimal strings the model uses.
ParseInt(s) ==
    CASE s = "-1" -> -1
      [] s = "0" -> 0
      [] s = "1" -> 1
      [] s = "2" -> 2
      [] s = "3" -> 3

\* el.is( 'element', name )
IsElement(node, nm) == node.name = nm

----------------------------------------------------------------------------
\* scanRowForHeadingColumns and scanTable

\* The view node at a path below the <table>: <<i>> a child of the table,
\* <<i, j>> a child of that child.
NodeAt(vt, path) ==
    IF Len(path) = 1 THEN vt[path[1]] ELSE vt[path[1]].children[path[2]]

IsCell(child) == child.name = "th" \/ child.name = "td"

\* th.getAttribute( 'colspan' ) || '1', parsed
Colspan(th) == ParseInt(IF th.colspan = NoAttr THEN "1" ELSE th.colspan)

\* Counts the starting adjacent <th> elements of a <tr>, by their colspans.
scanRowForHeadingColumns(tr) ==
    LET children == SelectSeq(tr.children, IsCell)
        RECURSIVE Count(_, _)
        Count(index, headingColumns) ==
            IF index <= Len(children) /\ IsElement(children[index], "th")
            THEN Count(index + 1, headingColumns + Colspan(children[index]))
            ELSE headingColumns
    IN  Count(1, 0)

\* Array.from( tr.getChildren() ).length && ...every( e => e.is( 'element', 'th' ) )
AllChildrenAreTh(tr) ==
    /\ Len(tr.children) # 0
    /\ \A k \in 1..Len(tr.children) : IsElement(tr.children[k], "th")

\* A scanner that takes the rows of every <thead> for heading rows.
IsHeadingRowInAnyThead(acc, i, tableChild, tr) ==
    \/ tableChild.name = "thead"
    \/ tableChild.name = "tbody" /\ AllChildrenAreTh(tr)

\* The first branch of the row loop: the row goes to the heading rows.
IsHeadingRow(acc, i, tableChild, tr) ==
    \/ acc.firstTheadElement # 0 /\ i = acc.firstTheadElement
    \/ tableChild.name = "tbody" /\ AllChildrenAreTh(tr)

\* The second branch of the row loop: the row goes to the footer rows.
IsFooterRow(acc, i) ==
    acc.firstTfootElement # 0 /\ i = acc.firstTfootElement

\* if ( !headingColumns || headingCols < headingColumns ) headingColumns = headingCols
UpdateHeadingColumns(headingColumns, headingCols) ==
    IF Not(headingColumns) \/ headingCols < headingColumns[1]
    THEN Num(headingCols)
    ELSE headingColumns

\* The body of the loop over the <tr>s of a section, for the row at <<i, j>>.
ScanTr(acc, vt, i, j) ==
    LET tableChild == vt[i]
        tr == tableChild.children[j]
    IN  IF IsHeadingRow(acc, i, tableChild, tr)
        THEN [acc EXCEPT !.headingRows = @ + 1, !.headRows = Append(@, <<i, j>>)]
        ELSE IF IsFooterRow(acc, i)
        THEN [acc EXCEPT !.footerRows = @ + 1, !.footRows = Append(@, <<i, j>>)]
        ELSE [acc EXCEPT !.bodyRows = Append(@, <<i, j>>),
                         !.headingColumns =
                             UpdateHeadingColumns(@, scanRowForHeadingColumns(tr))]

RECURSIVE ScanEveryChild(_, _, _, _)
\* A loop that takes every child of a section for a row.
ScanEveryChild(acc, vt, i, j) ==
    IF j > Len(vt[i].children) THEN acc
    ELSE ScanEveryChild(ScanTr(acc, vt, i, j), vt, i, j + 1)

RECURSIVE ScanTrs(_, _, _, _)
\* The loop over the children of section i from index j on: only <tr>s count.
ScanTrs(acc, vt, i, j) ==
    IF j > Len(vt[i].children) THEN acc
    ELSE IF IsElement(vt[i].children[j], "tr")
         THEN ScanTrs(ScanTr(acc, vt, i, j), vt, i, j + 1)
         ELSE ScanTrs(acc, vt, i, j + 1)

\* Remembers the first <thead> and the first <tfoot> (0: none yet).
NoteFirstSections(acc, tableChild, i) ==
    [acc EXCEPT
        !.firstTheadElement = IF tableChild.name = "thead" /\ @ = 0 THEN i ELSE @,
        !.firstTfootElement = IF tableChild.name = "tfoot" /\ @ = 0 THEN i ELSE @]

RECURSIVE ScanTableChildren(_, _, _)
\* The loop over the children of the table from index i on.
ScanTableChildren(acc, vt, i) ==
    IF i > Len(vt) THEN acc
    ELSE IF ~IsSection(vt[i])
         THEN ScanTableChildren(acc, vt, i + 1)
         ELSE ScanTableChildren(ScanTrs(NoteFirstSections(acc, vt[i], i), vt, i, 1), vt, i + 1)

\* scanTable's locals before its loop.
ScanStart ==
    [headingRows |-> 0, headingColumns |-> Undefined, footerRows |-> 0,
     headRows |-> << >>, bodyRows |-> << >>, footRows |-> << >>,
     firstTheadElement |-> 0, firstTfootElement |-> 0]

\* scanTable's locals after its loop.
ScanLocals(vt) == ScanTableChildren(ScanStart, vt, 1)

\* A scanner that returns the body rows first.
SortedRowsBodyFirst(acc) == acc.bodyRows \o acc.headRows \o acc.footRows

\* rows: [ ...headRows, ...bodyRows, ...footRows ]
SortedRows(acc) == acc.headRows \o acc.bodyRows \o acc.footRows

\* The value scanTable returns.
scanTable(vt) ==
    LET acc == ScanLocals(vt)
    IN  [headingRows |-> acc.headingRows,
         headingColumns |-> OrElse(acc.headingColumns, 0),
         footerRows |-> acc.footerRows,
         rows |-> SortedRows(acc)]

----------------------------------------------------------------------------
\* The view: a <table>, alone or inside a <figure>

NoFigure == [wrapped |-> FALSE, classes |-> {}, children |-> << >>]

\* A <figure> lists its children by kind: "table" is the <table> element.
Figures == {[wrapped |-> TRUE, classes |-> c, children |-> << >>] : c \in {{}, {"table"}}}

HasTable(fig) == ~fig.wrapped \/ \E k \in 1..Len(fig.children) : fig.children[k] = "table"

\* The view nodes of the whole view tree below its root.
ViewSize(fig, vt) == Len(fig.children) + CountNodes(vt)

GrowFigureChildren(fig) ==
    {"figcaption"} \cup (IF HasTable(fig) THEN {} ELSE {"table"})

\* Identities of the view nodes: a path below the table, or one of these.
TableId == << >>
FigureId == <<0>>
FigureChildId(i) == <<0, i>>
\* The "view" of a model node no view node was converted to.
NoView == <<0, 0>>

----------------------------------------------------------------------------
\* ViewConsumable: test, consume, revert

Aspect(node, a) == [node |-> node, aspect |-> a]

\* The aspects a view node can be consumed for: its name, and the class
\* "table" of a <figure> that has it.
Consumable(fig, node, a) ==
    a = "name" \/ (a = "class:table" /\ node = FigureId /\ "table" \in fig.classes)

Test(c, fig, node, aspects) ==
    \A a \in aspects : Consumable(fig, node, a) /\ Aspect(node, a) \notin c

Consume(c, node, aspects) == c \cup {Aspect(node, a) : a \in aspects}

Revert(c, node, aspects) == c \ {Aspect(node, a) : a \in aspects}

----------------------------------------------------------------------------
\* The model tree

NoRange == 0

ModelNode(n, v, cells) == [name |-> n, view |-> v, cells |-> cells]

\* A model <table>: its attributes (key and value pairs) and its children.
ModelTable(attributes) == [attributes |-> attributes, children |-> << >>]

\* writer.insert( node, writer.createPositionAt( table, 'end' ) )
InsertAtEnd(m, t, node) == [m EXCEPT ![t].children = Append(@, node)]

\* createPositionAt( table, 'end' ).index
EndIndex(m, t) == Len(m[t].children)

\* A table that is never taken for empty.
IsNeverEmptyTable(m, t) == FALSE

\* table.isEmpty
IsEmptyTable(m, t) == Len(m[t].children) = 0

----------------------------------------------------------------------------
\* upcastTable: the attributes and the repair of an empty table

\* A table handler that remembers an earlier pass and writes the attributes
\* in the first pass only.
TableAttributesOnce(s) ==
    IF first.done THEN {}
    ELSE {<<"headingRows", s.headingRows>>, <<"headingColumns", s.headingColumns>>,
          <<"footerRows", s.footerRows>>}

\* Only the values greater than 0 become attributes.
TableAttributes(s) ==
    (IF s.headingColumns # 0 THEN {<<"headingColumns", s.headingColumns>>} ELSE {})
        \cup (IF s.headingRows # 0 THEN {<<"headingRows", s.headingRows>>} ELSE {})
        \cup (IF s.footerRows # 0 THEN {<<"footerRows", s.footerRows>>} ELSE {})

\* createEmptyTableCell() in a new row: one row with one cell.
EmptyRow == ModelNode("tableRow", NoView, 1)

\* A table handler that leaves an empty table as it is.
NoRepairOfEmptyTable(m, t) == m

\* Create one row and one table cell for an empty table.
RepairEmptyTable(m, t) ==
    IF IsEmptyTable(m, t) THEN InsertAtEnd(m, t, EmptyRow) ELSE m

\* A table handler that converts a table whatever was consumed.
TableIsAlwaysNew(c, fig) == TRUE

\* The table handler's gate: the table was not consumed yet.
TableIsNew(c, fig) == Test(c, fig, TableId, {"name"})

----------------------------------------------------------------------------
\* skipEmptyTableRow and the converters of rows and of other children

\* A skip handler that stops no row.
SkipNoTableRow(tr, index) == FALSE

\* A skip handler that stops every empty row.
SkipEveryEmptyTableRow(tr, index) == tr.children = << >>

\* data.viewItem.isEmpty && data.modelCursor.index == 0: evt.stop()
SkipEmptyTableRow(tr, index) == tr.children = << >> /\ index = 0

\* The paths of the <th> and <td> children of the row at path p.
CellPaths(vt, p) ==
    {p \o <<k>> : k \in {k \in 1..Len(NodeAt(vt, p).children) :
                            IsCell(NodeAt(vt, p).children[k])}}

\* element:tr at normal priority: a row not consumed yet becomes a tableRow
\* at the cursor, and its <th> and <td> children become its cells.
UpcastRowModel(m, c, fig, vt, t, p) ==
    IF Test(c, fig, p, {"name"})
    THEN InsertAtEnd(m, t, ModelNode("tableRow", p, Cardinality(CellPaths(vt, p))))
    ELSE m

UpcastRowConsumed(c, fig, vt, p) ==
    IF Test(c, fig, p, {"name"})
    THEN c \cup {Aspect(q, "name") : q \in {p} \cup CellPaths(vt, p)}
    ELSE c

\* The dispatch of the row at path p at the end of table t: the handlers of
\* element:tr in the order of their priorities.
DispatchRowModel(m, c, fig, vt, t, p) ==
    IF SkipEmptyTableRow(NodeAt(vt, p), EndIndex(m, t))
    THEN m
    ELSE UpcastRowModel(m, c, fig, vt, t, p)

DispatchRowConsumed(m, c, fig, vt, t, p) ==
    IF SkipEmptyTableRow(NodeAt(vt, p), EndIndex(m, t))
    THEN c
    ELSE UpcastRowConsumed(c, fig, vt, p)

\* A <caption> or <figcaption> dispatched at the end of table t: the
\* converter of another feature, if one is registered, makes a caption not
\* yet consumed a caption of the table.  st is the model and the consumable.
UpcastCaption(st, fig, t, id, registered) ==
    IF registered /\ Test(st.consumed, fig, id, {"name"})
    THEN [model |-> InsertAtEnd(st.model, t, ModelNode("caption", id, 0)),
          consumed |-> Consume(st.consumed, id, {"name"})]
    ELSE st

RECURSIVE ConvertSectionRows(_, _, _, _, _, _)
\* The rows of section i from child j on, dispatched at the end of table t.
ConvertSectionRows(st, fig, vt, t, i, j) ==
    IF j > Len(vt[i].children) THEN st
    ELSE IF IsElement(vt[i].children[j], "tr")
         THEN ConvertSectionRows(
                  [model |-> DispatchRowModel(st.model, st.consumed, fig, vt, t, <<i, j>>),
                   consumed |-> DispatchRowConsumed(st.model, st.consumed, fig, vt, t, <<i, j>>)],
                  fig, vt, t, i, j + 1)
         ELSE ConvertSectionRows(st, fig, vt, t, i, j + 1)

\* A dispatch of the children of the table in which a section has a
\* converter: it dispatches the rows of the section once more.
DispatchTableChildAndItsRows(st, fig, vt, t, i, registered) ==
    IF vt[i].name = "caption" THEN UpcastCaption(st, fig, t, <<i>>, registered)
    ELSE IF IsSection(vt[i]) THEN ConvertSectionRows(st, fig, vt, t, i, 1)
    ELSE st

\* The dispatch of child i of the view table at the end of table t.  A
\* section and a text node have no converter that inserts into a table.
DispatchTableChild(st, fig, vt, t, i, registered) ==
    IF vt[i].name = "caption" THEN UpcastCaption(st, fig, t, <<i>>, registered) ELSE st

RECURSIVE ConvertChildren(_, _, _, _, _, _)
\* convertChildren( viewTable, end of table ), from child i on.
ConvertChildren(st, fig, vt, t, i, registered) ==
    IF i > Len(vt) THEN st
    ELSE ConvertChildren(DispatchTableChild(st, fig, vt, t, i, registered),
                         fig, vt, t, i + 1, registered)

\* The children of the view table, in the order convertChildren takes them.
ChildIds(vt) == [i \in 1..Len(vt) |-> <<i>>]

\* Does the view hold a <caption> or a <figcaption>?
HasCaption(fig, vt) ==
    \/ \E i \in 1..Len(vt) : vt[i].name = "caption"
    \/ \E i \in 1..Len(fig.children) : fig.children[i] = "figcaption"

----------------------------------------------------------------------------
\* ensureParagraphInTableCell

\* A model node in a table cell: a $marker, a paragraph or a table.
CellNode(n, id, ch) == [name |-> n, id |-> id, children |-> ch]

\* The nodes the conversion of the k-th view child of a cell can leave.
ConvertedNodes(k) ==
    {CellNode(n, k, << >>) : n \in {"$marker", "paragraph", "table"}}

\* writer.createElement( 'paragraph' )
Paragraph == CellNode("paragraph", 0, << >>)

\* node.is( 'element', '$marker' )
IsMarker(node) == node.name = "$marker"

\* A handler that takes a cell for one of markers only if it has a child.
EverySomeIsMarker(childNodes) ==
    childNodes # << >> /\ \A k \in 1..Len(childNodes) : IsMarker(childNodes[k])

\* childNodes.every( node => node.is( 'element', '$marker' ) )
EveryIsMarker(childNodes) == \A k \in 1..Len(childNodes) : IsMarker(childNodes[k])

\* writer.insert( node, writer.createPositionAt( tableCell, 0 ) )
InsertAtStart(children, node) == <<node>> \o children

\* A move that takes the node to the start of the paragraph.
MoveToParagraphStart(children, node) ==
    <<[children[1] EXCEPT !.children = <<node>> \o @]>>
        \o SelectSeq(Tail(children), LAMBDA n : n # node)

\* writer.move( createRangeOn( node ), createPositionAt( paragraph, 'end' ) ),
\* the paragraph being the first child of the cell.
MoveToParagraphEnd(children, node) ==
    <<[children[1] EXCEPT !.children = Append(@, node)]>>
        \o SelectSeq(Tail(children), LAMBDA n : n # node)

RECURSIVE MoveAllToParagraph(_, _)
\* for ( const node of childNodes ) writer.move( ... )
MoveAllToParagraph(children, childNodes) ==
    IF childNodes = << >> THEN children
    ELSE MoveAllToParagraph(MoveToParagraphEnd(children, Head(childNodes)), Tail(childNodes))

\* The children of the model cell after the handler.  c.modelRange says
\* whether data.modelRange is set, c.isEmpty is data.viewItem.isEmpty.
ensureParagraphInTableCell(c) ==
    IF ~c.modelRange THEN c.children
    ELSE IF c.isEmpty THEN InsertAtStart(c.children, Paragraph)
    ELSE IF EveryIsMarker(c.children)
         THEN MoveAllToParagraph(InsertAtStart(c.children, Paragraph), c.children)
         ELSE c.children

\* No cell is under conversion.
NoCell == [pc |-> "none", isEmpty |-> TRUE, modelRange |-> FALSE, children |-> << >>]

----------------------------------------------------------------------------
\* The conversion pass

NotScanned == [headingRows |-> 0, headingColumns |-> 0, footerRows |-> 0, rows |-> << >>]
NoBuckets == [headRows |-> << >>, bodyRows |-> << >>, footRows |-> << >>]
NoResults == [figure |-> NoRange, table |-> NoRange]

\* No pass over the view has ended yet.
NoFirst == [done |-> FALSE, captions |-> FALSE, model |-> << >>, results |-> NoResults]

Init ==
    /\ viewFigure \in {NoFigure} \cup Figures
    /\ viewTable = << >>
    /\ pc = "view"
    /\ ret = << >>
    /\ next = 1
    /\ figNext = 1
    /\ scan = NotScanned
    /\ buckets = NoBuckets
    /\ consumed = {}
    /\ model = << >>
    /\ table = 0
    /\ results = NoResults
    /\ captions = FALSE
    /\ dispatched = << >>
    /\ cell = NoCell
    /\ first = NoFirst

\* The view table gets one more node.
GrowView ==
    /\ pc = "view"
    /\ HasTable(viewFigure)
    /\ ViewSize(viewFigure, viewTable) < MaxNodes
    /\ viewTable' \in GrowTable(viewTable)
    /\ UNCHANGED <<viewFigure, pc, scan, buckets, passVars, cell, first>>

\* The view figure gets one more child.
GrowFigure ==
    /\ pc = "view"
    /\ viewFigure.wrapped
    /\ ViewSize(viewFigure, viewTable) < MaxNodes
    /\ \E child \in GrowFigureChildren(viewFigure) :
           viewFigure' = [viewFigure EXCEPT !.children = Append(@, child)]
    /\ UNCHANGED <<viewTable, pc, scan, buckets, passVars, cell, first>>

\* What the handlers that run before the figure handler may have consumed
\* of a table figure: nothing, the figure's name and class, or its table.
ClaimedBefore(fig) ==
    IF fig.wrapped /\ "table" \in fig.classes
    THEN {{}, Consume({}, FigureId, {"name", "class:table"})}
             \cup (IF HasTable(fig) THEN {Consume({}, TableId, {"name"})} ELSE {})
    ELSE {{}}

\* The pass starts: the root of the view tree is dispatched.  Whether a
\* converter of captions is registered matters to a view that holds one.
StartPass ==
    /\ pc = "view"
    /\ pc' = IF viewFigure.wrapped THEN "figure" ELSE "table"
    /\ dispatched' = <<IF viewFigure.wrapped THEN FigureId ELSE TableId>>
    /\ captions' \in (IF HasCaption(viewFigure, viewTable) THEN BOOLEAN ELSE {FALSE})
    /\ consumed' \in ClaimedBefore(viewFigure)
    /\ UNCHANGED <<viewVars, cell, first, ret, next, figNext, scan, buckets, model, table,
                   results>>

\* The table handler returns to the dispatch that called it.
ReturnPc == IF ret = << >> THEN "done" ELSE Head(ret)
ReturnRet == IF ret = << >> THEN << >> ELSE Tail(ret)

\* The loop over the rows is followed by convertChildren( viewTable ).
RowsPc(s, k) == IF k > Len(s.rows) THEN "children" ELSE "rows"

\* The two tests of the figure handler: this is a table figure nobody
\* consumed, and its first <table> child was not converted yet.
FigureConverts(c, fig) ==
    /\ Test(c, fig, FigureId, {"name", "class:table"})
    /\ HasTable(fig)
    /\ Test(c, fig, TableId, {"name"})

\* A figure handler that consumes the figure before it looks for the table.
ConsumeFigureBeforeTable(c, fig) ==
    IF Test(c, fig, FigureId, {"name", "class:table"})
    THEN Consume(c, FigureId, {"name", "class:table"})
    ELSE c

\* consumable.consume( figure, { name: true, classes: 'table' } ), reached
\* only when both tests passed.
ConsumeFigure(c, fig) ==
    IF FigureConverts(c, fig) THEN Consume(c, FigureId, {"name", "class:table"}) ELSE c

\* upcastTableFigure, up to its convertItem( viewTable ).
UpcastTableFigure ==
    /\ pc = "figure"
    /\ consumed' = ConsumeFigure(consumed, viewFigure)
    /\ IF FigureConverts(consumed, viewFigure)
       THEN /\ dispatched' = Append(dispatched, TableId)
            /\ pc' = "table"
            /\ ret' = <<"figureResult">> \o ret
       ELSE /\ pc' = "done"
            /\ UNCHANGED <<dispatched, ret>>
    /\ UNCHANGED <<viewVars, cell, first, next, figNext, scan, buckets, model, table, results, captions>>

\* A table handler that consumes the table whatever safeInsert answered.
ConsumeTableAnyway(c, inserted) == Consume(c, TableId, {"name"})

\* if ( !safeInsert( table, data.modelCursor ) ) return;
\* consumable.consume( viewTable, { name: true } )
ConsumeInsertedTable(c, inserted) ==
    IF inserted THEN Consume(c, TableId, {"name"}) ELSE c

\* upcastTable, up to its loop over the rows.  The schema of the place the
\* cursor is at decides whether safeInsert accepts the table.
UpcastTable ==
    /\ pc = "table"
    /\ IF ~TableIsNew(consumed, viewFigure)
       THEN /\ pc' = ReturnPc
            /\ ret' = ReturnRet
            /\ UNCHANGED <<next, scan, buckets, consumed, model, table>>
       ELSE /\ scan' = scanTable(viewTable)
            /\ buckets' = LET acc == ScanLocals(viewTable)
                          IN  [headRows |-> acc.headRows, bodyRows |-> acc.bodyRows,
                               footRows |-> acc.footRows]
            /\ \E inserted \in BOOLEAN :
                   /\ consumed' = ConsumeInsertedTable(consumed, inserted)
                   /\ IF inserted
                      THEN /\ model' = Append(model, ModelTable(TableAttributes(scan')))
                           /\ table' = Len(model) + 1
                           /\ pc' = RowsPc(scan', 1)
                           /\ next' = 1
                           /\ UNCHANGED ret
                      ELSE /\ pc' = ReturnPc
                           /\ ret' = ReturnRet
                           /\ UNCHANGED <<next, model, table>>
    /\ UNCHANGED <<viewVars, cell, first, figNext, results, captions, dispatched>>

\* rows.forEach( row => convertItem( row, end of table ) ), one row.
ConvertRow ==
    /\ pc = "rows"
    /\ LET p == scan.rows[next]
       IN  /\ model' = DispatchRowModel(model, consumed, viewFigure, viewTable, table, p)
           /\ consumed' = DispatchRowConsumed(model, consumed, viewFigure, viewTable, table, p)
           /\ dispatched' = Append(dispatched, p)
    /\ pc' = RowsPc(scan, next + 1)
    /\ next' = next + 1
    /\ UNCHANGED <<viewVars, cell, first, ret, figNext, scan, buckets, table, results, captions>>

\* convertChildren( viewTable, end of table ), then the repair of an empty
\* table and updateConversionResult( table, data ).
FinishTable ==
    /\ pc = "children"
    /\ LET st == ConvertChildren([model |-> model, consumed |-> consumed], viewFigure,
                                 viewTable, table, 1, captions)
       IN  /\ model' = RepairEmptyTable(st.model, table)
           /\ consumed' = st.consumed
    /\ dispatched' = dispatched \o ChildIds(viewTable)
    /\ results' = [results EXCEPT !.table = table]
    /\ pc' = ReturnPc
    /\ ret' = ReturnRet
    /\ UNCHANGED <<viewVars, cell, first, next, figNext, scan, buckets, table, captions>>

\* A figure handler that keeps the figure consumed when the table failed.
KeepFigureConsumed(c) == c

\* Revert the consumed figure so other features can convert it.
RevertFigure(c) == Revert(c, FigureId, {"name", "class:table"})

\* upcastTableFigure after convertItem( viewTable ): the table of the
\* conversion result, or the revert when there is none.
FigureResult ==
    /\ pc = "figureResult"
    /\ IF results.table = NoRange
       THEN /\ consumed' = RevertFigure(consumed)
            /\ pc' = "done"
       ELSE /\ pc' = "figureChildren"
            /\ UNCHANGED consumed
    /\ figNext' = 1
    /\ UNCHANGED <<viewVars, cell, first, ret, next, scan, buckets, model, table, results, captions, dispatched>>

\* convertChildren( figure, end of modelTable ), one child.
ConvertFigureChild ==
    /\ pc = "figureChildren"
    /\ figNext <= Len(viewFigure.children)
    /\ figNext' = figNext + 1
    /\ IF viewFigure.children[figNext] = "table"
       THEN /\ dispatched' = Append(dispatched, TableId)
            /\ pc' = "table"
            /\ ret' = <<"figureChildren">> \o ret
            /\ UNCHANGED <<model, consumed>>
       ELSE /\ dispatched' = Append(dispatched, FigureChildId(figNext))
            /\ LET st == UpcastCaption([model |-> model, consumed |-> consumed], viewFigure,
                                       results.table, FigureChildId(figNext), captions)
               IN  model' = st.model /\ consumed' = st.consumed
            /\ UNCHANGED <<pc, ret>>
    /\ UNCHANGED <<viewVars, cell, first, next, scan, buckets, table, results, captions>>

\* upcastTableFigure: updateConversionResult( modelTable, data ).
FinishFigure ==
    /\ pc = "figureChildren"
    /\ figNext > Len(viewFigure.children)
    /\ results' = [results EXCEPT !.figure = results.table]
    /\ pc' = "done"
    /\ UNCHANGED <<viewVars, cell, first, ret, next, figNext, scan, buckets, consumed, model, table, captions,
                   dispatched>>

Next ==
    \/ GrowView
    \/ GrowFigure
    \/ StartPass
    \/ UpcastTableFigure
    \/ UpcastTable
    \/ ConvertRow
    \/ FinishTable
    \/ FigureResult
    \/ ConvertFigureChild
    \/ FinishFigure

Spec == Init /\ [][Next]_vars

----------------------------------------------------------------------------
\* Two passes over one view: when the first pass has ended, a second one
\* starts over the same view with a new consumable and a new model.

Again ==
    /\ pc = "done"
    /\ ~first.done
    /\ first' = [done |-> TRUE, captions |-> captions, model |-> model, results |-> results]
    /\ pc' = IF viewFigure.wrapped THEN "figure" ELSE "table"
    /\ dispatched' = <<IF viewFigure.wrapped THEN FigureId ELSE TableId>>
    /\ captions' \in (IF HasCaption(viewFigure, viewTable) THEN BOOLEAN ELSE {FALSE})
    /\ ret' = << >>
    /\ next' = 1
    /\ figNext' = 1
    /\ scan' = NotScanned
    /\ buckets' = NoBuckets
    /\ consumed' = {}
    /\ model' = << >>
    /\ table' = 0
    /\ results' = NoResults
    /\ UNCHANGED <<viewVars, cell>>

NextTwice == Next \/ Again

SpecTwice == Init /\ [][NextTwice]_vars

----------------------------------------------------------------------------
\* Scanning alone: any table within the bounds is scanned once.

InitScan == Init /\ ~viewFigure.wrapped

\* scanTable( viewTable )
Scan ==
    /\ pc = "view"
    /\ scan' = scanTable(viewTable)
    /\ buckets' = LET acc == ScanLocals(viewTable)
                  IN  [headRows |-> acc.headRows, bodyRows |-> acc.bodyRows,
                       footRows |-> acc.footRows]
    /\ pc' = "scanned"
    /\ UNCHANGED <<viewVars, cell, first, passVars>>

NextScan == GrowView \/ Scan

SpecScan == InitScan /\ [][NextScan]_vars

----------------------------------------------------------------------------
\* The conversion of one table cell: the converters of normal priority leave
\* the model cell and its children, then ensureParagraphInTableCell runs.

InitCell ==
    /\ viewFigure = NoFigure
    /\ viewTable = << >>
    /\ pc = "cell"
    /\ ret = << >>
    /\ next = 1
    /\ figNext = 1
    /\ scan = NotScanned
    /\ buckets = NoBuckets
    /\ consumed = {}
    /\ model = << >>
    /\ table = 0
    /\ results = NoResults
    /\ captions = FALSE
    /\ dispatched = << >>
    /\ first = NoFirst
    /\ cell \in [pc : {"children"}, isEmpty : BOOLEAN, modelRange : BOOLEAN,
                 children : {<< >>}]

\* The conversion of one more view child of the cell leaves a model child.
\* An empty view cell has no child, and without a range there is no cell.
ConvertCellChild ==
    /\ cell.pc = "children"
    /\ ~cell.isEmpty
    /\ cell.modelRange
    /\ Len(cell.children) < MaxCellChildren
    /\ \E node \in ConvertedNodes(Len(cell.children) + 1) :
           cell' = [cell EXCEPT !.children = Append(@, node)]
    /\ UNCHANGED <<viewVars, pc, scan, buckets, passVars, first>>

\* The handler of low priority runs on the cell.
EnsureParagraphInTableCell ==
    /\ cell.pc = "children"
    /\ cell' = [cell EXCEPT !.pc = "done", !.children = ensureParagraphInTableCell(cell)]
    /\ UNCHANGED <<viewVars, pc, scan, buckets, passVars, first>>

NextCell == ConvertCellChild \/ EnsureParagraphInTableCell

SpecCell == InitCell /\ [][NextCell]_vars

----------------------------------------------------------------------------
\* Properties of scanTable

Range(seq) == {seq[k] : k \in 1..Len(seq)}

Scanned == pc = "scanned"

\* The paths of the <tr>s that are direct children of sections of the table.
SectionRows(vt) ==
    {<<i, j>> : i \in {i \in 1..Len(vt) : IsSection(vt[i])}, j \in 1..MaxNodes} \cap
    {p \in (1..MaxNodes) \X (1..MaxNodes) :
        /\ p[1] <= Len(vt)
        /\ p[2] <= Len(vt[p[1]].children)
        /\ vt[p[1]].children[p[2]].name = "tr"}

\* Document order of two rows.
DocBefore(p, q) == p[1] < q[1] \/ (p[1] = q[1] /\ p[2] < q[2])

\* The bucket scanTable put a row in.
ClassOf(p) ==
    IF p \in Range(buckets.headRows) THEN "Heading"
    ELSE IF p \in Range(buckets.bodyRows) THEN "Body"
    ELSE IF p \in Range(buckets.footRows) THEN "Footer"
    ELSE "none"

ClassRank(c) == CASE c = "Heading" -> 1 [] c = "Body" -> 2 [] c = "Footer" -> 3 [] OTHER -> 4

\* The <th> and <td> children of a row.
Cells(tr) == SelectSeq(tr.children, IsCell)

RECURSIVE SumColspans(_)
SumColspans(cells) ==
    IF cells = << >> THEN 0 ELSE Colspan(Head(cells)) + SumColspans(Tail(cells))

\* The number of columns a row spans.
ColumnCount(tr) == SumColspans(Cells(tr))

RECURSIVE LeadingRun(_)
\* The sum of the colspans of the leading <th> cells of a list of cells.
LeadingRun(cells) ==
    IF cells = << >> \/ Head(cells).name # "th" THEN 0
    ELSE Colspan(Head(cells)) + LeadingRun(Tail(cells))

Minimum(S) == CHOOSE m \in S : \A n \in S : m <= n

\* C2: headingColumns is the minimum, over the rows classified Body, of the
\* row's leading heading-column run, and 0 when no row is classified Body.
C2_HeadingColumnsIsMinimum ==
    Scanned =>
        scan.headingColumns =
            IF buckets.bodyRows = << >> THEN 0
            ELSE Minimum({LeadingRun(Cells(NodeAt(viewTable, p))) :
                             p \in Range(buckets.bodyRows)})

\* C3: a <tbody> row with at least one cell whose cells are all <th> is
\* classified Heading, and a <tbody> row with no cell never is.
C3_AllThBodyRowIsHeading ==
    Scanned =>
        \A p \in SectionRows(viewTable) :
            viewTable[p[1]].name = "tbody" =>
                LET cells == Cells(NodeAt(viewTable, p))
                IN  /\ (cells # << >> /\ \A k \in 1..Len(cells) : cells[k].name = "th")
                           => ClassOf(p) = "Heading"
                    /\ cells = << >> => ClassOf(p) # "Heading"

\* Is table child i a <thead> (a <tfoot>) that follows another one?
IsLaterSection(vt, i) ==
    /\ vt[i].name \in {"thead", "tfoot"}
    /\ \E h \in 1..(i - 1) : vt[h].name = vt[i].name

\* C4: every row of a <thead> after the first and of a <tfoot> after the
\* first is classified Body: it is counted in neither headingRows nor
\* footerRows, and it decides headingColumns when it is the only Body row.
C4_LaterSectionsAreBody ==
    Scanned =>
        /\ scan.headingRows = Len(buckets.headRows)
        /\ scan.footerRows = Len(buckets.footRows)
        /\ \A p \in SectionRows(viewTable) :
               IsLaterSection(viewTable, p[1]) =>
                   /\ ClassOf(p) = "Body"
                   /\ p \notin Range(buckets.headRows) \cup Range(buckets.footRows)
                   /\ buckets.bodyRows = <<p>> =>
                          scan.headingColumns = scanRowForHeadingColumns(NodeAt(viewTable, p))

\* A row of a second <thead> whose children are all <th> was scanned: it is
\* the only Body row, and no row is a heading row.
C4_Witness ==
    /\ Scanned
    /\ \E p \in SectionRows(viewTable) :
           /\ IsLaterSection(viewTable, p[1])
           /\ viewTable[p[1]].name = "thead"
           /\ AllChildrenAreTh(NodeAt(viewTable, p))
           /\ buckets.bodyRows = <<p>>
           /\ scan.headingColumns > 0
           /\ scan.headingRows = 0

\* C7: headingColumns exceeds the column count of no row classified Body,
\* and headingRows, headingColumns and footerRows are not negative.
C7_HeadingColumnsWithinBodyRows ==
    Scanned =>
        /\ scan.headingRows >= 0 /\ scan.headingColumns >= 0 /\ scan.footerRows >= 0
        /\ \A p \in Range(buckets.bodyRows) :
               scan.headingColumns <= ColumnCount(NodeAt(viewTable, p))

\* The number of times x occurs in a sequence.
Occurrences(seq, x) == Cardinality({k \in 1..Len(seq) : seq[k] = x})

\* C14: every <tr> that is a child of a section of the table is in exactly
\* one of the buckets Heading, Body and Footer and occurs exactly once in
\* the returned rows; headingRows is the number of Heading rows and
\* footerRows the number of Footer rows; and nothing else (no other child
\* of a section, no other child of the table) is in a bucket or a row.
C14_EveryRowInExactlyOneBucket ==
    Scanned =>
        /\ \A p \in SectionRows(viewTable) :
               /\ Occurrences(scan.rows, p) = 1
               /\ Occurrences(buckets.headRows, p) + Occurrences(buckets.bodyRows, p)
                      + Occurrences(buckets.footRows, p) = 1
        /\ scan.headingRows =
               Cardinality({p \in SectionRows(viewTable) : ClassOf(p) = "Heading"})
        /\ scan.footerRows =
               Cardinality({p \in SectionRows(viewTable) : ClassOf(p) = "Footer"})
        /\ Range(scan.rows) \subseteq SectionRows(viewTable)
        /\ Range(buckets.headRows) \cup Range(buckets.bodyRows) \cup Range(buckets.footRows)
               \subseteq SectionRows(viewTable)

\* A table was scanned that has a heading row, a footer row, a section
\* with a child that is no row, and a child that is no section.
C14_Witness ==
    /\ Scanned
    /\ scan.headingRows >= 1
    /\ scan.footerRows >= 1
    /\ \E i \in 1..Len(viewTable) : ~IsSection(viewTable[i])
    /\ \E i \in 1..Len(viewTable) :
           /\ IsSection(viewTable[i])
           /\ \E j \in 1..Len(viewTable[i].children) : viewTable[i].children[j].name # "tr"

----------------------------------------------------------------------------
\* Properties of the conversion pass

IsRow(node) == node.name = "tableRow"

\* The rows of model table t.
Rows(t) == SelectSeq(model[t].children, IsRow)

\* The table handler inserted its table and ran to its end.
TableConverted == results.table # NoRange

\* Is this identity the path of a child of a child of the table?
IsViewRowPath(id) == Len(id) = 2 /\ id[1] >= 1

\* The view row at path p has no children.
IsEmptyViewRow(p) == NodeAt(viewTable, p).children = << >>

\* C5: a view table without any child is converted to a table with exactly
\* one row that has exactly one cell, and a table handler that completed
\* after a successful safeInsert leaves a table with at least one child.
C5_EmptyTableGetsOneRow ==
    TableConverted =>
        /\ model[results.table].children # << >>
        /\ viewTable = << >> => Rows(results.table) = <<EmptyRow>>

\* A view table without any child was converted.
C5_Witness == TableConverted /\ viewTable = << >> /\ pc = "done"

\* C6 as stated: every table the table handler produced has at least one
\* row, and every row in it has at least one cell.
C6_AlwaysRowsWithCells ==
    TableConverted =>
        /\ Rows(results.table) # << >>
        /\ \A k \in 1..Len(Rows(results.table)) : Rows(results.table)[k].cells >= 1

\* C6: every table the table handler produced has at least one child; it
\* has at least one row unless a child that is no row (a caption) was
\* converted into it; and each of its rows has at least one cell unless it
\* was converted from a view row without <th> and <td> children.
C6_RowsUnlessCaptionCellsUnlessNone ==
    TableConverted =>
        /\ model[results.table].children # << >>
        /\ Rows(results.table) = << >> =>
               \E k \in 1..Len(model[results.table].children) :
                   model[results.table].children[k].name = "caption"
        /\ \A k \in 1..Len(Rows(results.table)) :
               LET row == Rows(results.table)[k]
               IN  \/ row.cells >= 1
                   \/ row.view # NoView /\ Cells(NodeAt(viewTable, row.view)) = << >>

\* A view table with a <caption> and an empty row was converted to a
\* table that holds the caption and no row.
C6_Witness ==
    /\ TableConverted
    /\ pc = "done"
    /\ Rows(results.table) = << >>
    /\ model[results.table].children # << >>
    /\ scan.rows # << >>

\* C8: the dispatch of an empty view row at the end of a table without
\* children changes neither the model nor the consumable; the dispatch of
\* an empty view row at the end of a table with children appends a row
\* without cells to it.
C8_EmptyRowSkippedOnlyAtStart ==
    [][(pc = "rows" /\ IsEmptyViewRow(scan.rows[next])) =>
           IF EndIndex(model, table) = 0
           THEN model' = model /\ consumed' = consumed
           ELSE model' = InsertAtEnd(model, table, ModelNode("tableRow", scan.rows[next], 0))
      ]_vars

\* An empty view row was dispatched and gave no row, and another empty
\* view row, dispatched after a row with cells, gave a row.
C8_Witness ==
    /\ TableConverted
    /\ \E a, b \in 1..Len(dispatched) :
           /\ a < b
           /\ IsViewRowPath(dispatched[a]) /\ IsEmptyViewRow(dispatched[a])
           /\ IsViewRowPath(dispatched[b]) /\ IsEmptyViewRow(dispatched[b])
           /\ \A k \in 1..Len(Rows(results.table)) :
                  Rows(results.table)[k].view # dispatched[a]
           /\ \E k \in 2..Len(Rows(results.table)) :
                  /\ Rows(results.table)[k].view = dispatched[b]
                  /\ Rows(results.table)[1].cells >= 1

TableConsumed == Aspect(TableId, "name") \in consumed

\* The number of times a view node was dispatched.
Dispatches(id) == Cardinality({k \in 1..Len(dispatched) : dispatched[k] = id})

\* C9: once the name of the view table is consumed it stays consumed,
\* test( viewTable, { name } ) is false, and no step inserts a model table.
C9_ConsumedTableConvertedOnce ==
    [][TableConsumed =>
           /\ TableConsumed'
           /\ ~Test(consumed', viewFigure', TableId, {"name"})
           /\ Len(model') = Len(model)
      ]_vars

\* The figure handler dispatched the table it had converted once more, and
\* the pass ended with one model table.
C9_Witness ==
    /\ pc = "done"
    /\ Dispatches(TableId) = 2
    /\ Len(model) = 1
    /\ results.figure # NoRange

\* The figure handler dispatched the table and the dispatch gave no table.
FigureFailed ==
    /\ pc = "done"
    /\ viewFigure.wrapped
    /\ Dispatches(TableId) >= 1
    /\ results.table = NoRange

\* C10: when the dispatch of the table gave no model table, the figure
\* handler leaves the figure consumable again for its name and its class,
\* has dispatched no other child of the figure, and reports no result.
C10_FailedFigureIsReverted ==
    FigureFailed =>
        /\ Test(consumed, viewFigure, FigureId, {"name", "class:table"})
        /\ dispatched = <<FigureId, TableId>>
        /\ results.figure = NoRange

\* The dispatch of the table of a figure with a caption gave no table.
C10_Witness == FigureFailed /\ Len(viewFigure.children) >= 2 /\ viewTable # << >>

\* The rows dispatched so far, in the order of their dispatch.
DispatchedRows == SelectSeq(dispatched, IsViewRowPath)

\* C1: the rows scanTable returns are all the rows it classified Heading,
\* then all it classified Body, then all it classified Footer, the rows of
\* one class keep their document order, and the table handler dispatches
\* the rows in the order of that list.
C1_RowsInCanonicalOrder ==
    TableConsumed =>
        /\ Range(scan.rows) =
               Range(buckets.headRows) \cup Range(buckets.bodyRows) \cup Range(buckets.footRows)
        /\ \A a, b \in 1..Len(scan.rows) :
               a < b =>
                   /\ ClassRank(ClassOf(scan.rows[a])) <= ClassRank(ClassOf(scan.rows[b]))
                   /\ ClassOf(scan.rows[a]) = ClassOf(scan.rows[b]) =>
                          DocBefore(scan.rows[a], scan.rows[b])
        /\ DispatchedRows =
               IF pc = "rows" THEN SubSeq(scan.rows, 1, next - 1) ELSE scan.rows

\* A table whose sections come in the order foot, body, head was converted
\* and its rows were dispatched in the order head, body, foot.
C1_Witness ==
    /\ TableConverted
    /\ \E a, b, c \in 1..Len(DispatchedRows) :
           /\ a < b /\ b < c
           /\ ClassOf(DispatchedRows[a]) = "Heading"
           /\ ClassOf(DispatchedRows[b]) = "Body"
           /\ ClassOf(DispatchedRows[c]) = "Footer"
           /\ DocBefore(DispatchedRows[c], DispatchedRows[b])
           /\ DocBefore(DispatchedRows[b], DispatchedRows[a])

\* The three counts scanTable returns that may become attributes.
CountKeys == {"headingRows", "headingColumns", "footerRows"}

\* C16: the model table has the attribute headingRows (headingColumns,
\* footerRows) if and only if the scanned count is greater than 0, and the
\* value of the attribute is the scanned count.
C16_AttributeIffCountPositive ==
    table # 0 =>
        \A key \in CountKeys :
            /\ (\E a \in model[table].attributes : a[1] = key) <=> scan[key] > 0
            /\ \A a \in model[table].attributes : a[1] = key => a[2] = scan[key]

\* The figure handler is about to run and one of its tests fails.
FigureDeclines == pc = "figure" /\ ~FigureConverts(consumed, viewFigure)

\* C17: when the figure handler declines, because the name and the class
\* "table" of the figure are not consumable, or the figure has no <table>
\* child, or that table is consumed, it changes neither the consumable nor
\* the model and its cursor nor the conversion result, and it dispatches
\* nothing.
C17_DecliningFigureChangesNothing ==
    [][FigureDeclines =>
           /\ UNCHANGED <<consumed, model, table, results, dispatched, ret>>
           /\ pc' = "done"
      ]_vars

\* The figure handler declined a table figure whose table was consumed.
C17_Witness ==
    /\ pc = "done"
    /\ dispatched = <<FigureId>>
    /\ Test(consumed, viewFigure, FigureId, {"name", "class:table"})
    /\ HasTable(viewFigure)
    /\ ~Test(consumed, viewFigure, TableId, {"name"})
    /\ viewTable # << >>

\* The table was dispatched and its handler returned without a table.
TableRejected ==
    /\ Dispatches(TableId) >= 1
    /\ pc \notin {"table", "rows", "children"}
    /\ results.table = NoRange

\* C11: when safeInsert rejects the new table, the table handler consumes
\* nothing (the table still tests true for its name), dispatches no row and
\* no other child of the table, inserts nothing into the model and reports
\* no result, and the handler that dispatched the table goes on.
C11_RejectedInsertChangesNothing ==
    TableRejected =>
        /\ Test(consumed, viewFigure, TableId, {"name"})
        /\ \A k \in 1..Len(dispatched) : dispatched[k] \in {FigureId, TableId}
        /\ model = << >>
        /\ results = NoResults
        /\ pc \in (IF viewFigure.wrapped THEN {"figureResult", "done"} ELSE {"done"})

\* The insert of a bare table with rows was rejected.
C11_Witness ==
    /\ TableRejected
    /\ ~viewFigure.wrapped
    /\ scan.rows # << >>
    /\ Len(viewTable) >= 2

\* The view table has rows in its sections, and all of them are empty.
AllRowsEmpty ==
    /\ scan.rows # << >>
    /\ \A k \in 1..Len(scan.rows) : IsEmptyViewRow(scan.rows[k])

\* A child of the view table that is no row was converted into table t.
HoldsTableCaption(t) ==
    \E k \in 1..Len(model[t].children) :
        /\ model[t].children[k].name = "caption"
        /\ Len(model[t].children[k].view) = 1

\* C18 as stated: a table whose rows are all empty is converted to a table
\* with exactly one row that has exactly one cell.
C18_AllEmptyRowsGiveOneRow ==
    (TableConverted /\ AllRowsEmpty) => Rows(results.table) = <<EmptyRow>>

\* C18: every row of a table whose rows are all empty is dispatched at
\* index 0 of the still empty table and is suppressed; the table is then
\* converted to a table with exactly one row that has exactly one cell,
\* unless another child of the view table (a caption) was converted into
\* it, and then no row is made for it.
C18_AllEmptyRowsGiveOneRowUnlessCaption ==
    (table # 0 /\ AllRowsEmpty) =>
        /\ pc \in {"rows", "children"} => model[table].children = << >>
        /\ TableConverted =>
               Rows(results.table) =
                   IF HoldsTableCaption(results.table) THEN << >> ELSE <<EmptyRow>>

\* A table with an empty row in its <tfoot> and two in its <tbody> was
\* converted to a table with one row.
C18_Witness ==
    /\ TableConverted
    /\ pc = "done"
    /\ AllRowsEmpty
    /\ Len(buckets.bodyRows) = 2
    /\ Len(buckets.footRows) = 1
    /\ model[results.table].children = <<EmptyRow>>

\* C19: after the table handler the counts it wrote agree with the rows of
\* the model table: headingRows + footerRows is at most the number of its
\* rows, and its first headingRows rows are the rows converted from the
\* view rows classified Heading, in their order.
C19_CountsAgreeWithRows ==
    TableConverted =>
        /\ scan.headingRows + scan.footerRows <= Len(Rows(results.table))
        /\ \A k \in 1..scan.headingRows :
               /\ k <= Len(Rows(results.table))
               /\ Rows(results.table)[k].view = buckets.headRows[k]

\* The number of children of model table t converted from the view row p.
RowsFrom(m, t, p) ==
    IF t = 0 THEN 0
    ELSE Cardinality({k \in 1..Len(m[t].children) : m[t].children[k].view = p})

\* The view row p was dispatched and gave no row: it was suppressed.
Suppressed(p) == p \in Range(dispatched) /\ RowsFrom(model, table, p) = 0

----------------------------------------------------------------------------
\* Properties of ensureParagraphInTableCell

\* The handler is about to run on the cell, or runs in this step.
CellRepaired == cell.pc = "children" /\ cell'.pc = "done"

\* C12: the handler turns the children of a cell that has at least one
\* child and only $marker children into one paragraph that holds these
\* markers in their order, and after the handler the children of a cell
\* are never one or more $markers only.
C12_MarkersMoveIntoOneParagraph ==
    [][CellRepaired =>
           /\ (cell.children # << >> /\ EveryIsMarker(cell.children)) =>
                  cell'.children = <<CellNode("paragraph", 0, cell.children)>>
           /\ ~(cell'.children # << >> /\ EveryIsMarker(cell'.children))
      ]_vars

\* The handler ran on a cell with three markers: the cell holds one
\* paragraph with the three markers, in the order of their conversion.
C12_Witness ==
    /\ cell.pc = "done"
    /\ Len(cell.children) = 1
    /\ cell.children[1].name = "paragraph"
    /\ Len(cell.children[1].children) = 3
    /\ \A k \in 1..3 : cell.children[1].children[k] = CellNode("$marker", k, << >>)

\* C15: after the handler a cell with a model range has at least one
\* child: the cell of an empty view cell got exactly one empty paragraph at
\* its start, and the cell of a view cell that is not empty but left no
\* model child got a paragraph too; without a model range the handler
\* changes nothing.
C15_CellWithRangeGetsAChild ==
    [][CellRepaired =>
           IF cell.modelRange
           THEN /\ cell'.children # << >>
                /\ cell.isEmpty => cell'.children = <<Paragraph>> \o cell.children
                /\ (~cell.isEmpty /\ cell.children = << >>) => cell'.children = <<Paragraph>>
           ELSE cell'.children = cell.children
      ]_vars

\* The handler ran on the cell of a view cell that is not empty and whose
\* conversion left no model child: the cell holds one empty paragraph.
C15_Witness ==
    /\ cell.pc = "done"
    /\ cell.modelRange
    /\ ~cell.isEmpty
    /\ cell.children = <<Paragraph>>

----------------------------------------------------------------------------
\* Properties of two passes over one view

\* The second pass has ended, and it ran with the converters and at the
\* place of the first one: captions are converted in both or in neither,
\* and safeInsert accepted the table in both or in neither.
SecondPassAlike ==
    /\ pc = "done"
    /\ first.done
    /\ captions = first.captions
    /\ (model = << >>) = (first.model = << >>)

====
